---- MODULE Spec2Model ----
(***************************************************************************)
(* Model of real_estate_dashboard/app.py: a Streamlit script that loads a  *)
(* listings CSV, filters it by eight sidebar widgets, and renders KPIs,    *)
(* charts, a listings table and a comparison tab.  Streamlit re-executes   *)
(* the whole script on every widget interaction, so every action below is  *)
(* one complete script run with the widget values of that run.             *)
(*                                                                         *)
(* Numbers.  A float of the program is modelled as a non-negative integer  *)
(* count of 1/Denom units (Denom = 2: the model has halves, so 215001      *)
(* stands for 107500.5), or NaN.  Quotients and means are exact fractions  *)
(* <<num, den>> in lowest terms, <<0, 0>> being NaN and <<1, 0>> being     *)
(* +inf.  A natural logarithm is kept as its argument.                     *)
(***************************************************************************)
EXTENDS Integers, Sequences, FiniteSets, TLC

VARIABLES csv, df, status, interactions,
          cities, prop_types, rent_opts, furn_opts,
          sel_price, sel_area, sel_bed, sel_bath,
          compare_ids, df_filtered, download,
          kpi, type_price, top20, compare

vars == <<csv, df, status, interactions,
          cities, prop_types, rent_opts, furn_opts,
          sel_price, sel_area, sel_bed, sel_bath,
          compare_ids, df_filtered, download,
          kpi, type_price, top20, compare>>

(* ------------------------------ bounds --------------------------------- *)
MaxRows == 2
MaxInteractions == 2

(* --------------------------- number encoding --------------------------- *)
Denom == 2
NaN == -1
EmptyCell == -2
JunkCell == -3

PriceStep == 5000
AreaStep == 5
TopN == 20
RadarMax == 5
MinCompare == 2

Whole(n) == n * Denom

RECURSIVE Gcd(_, _)
Gcd(a, b) == IF b = 0 THEN a ELSE Gcd(b, a % b)

FracNaN == <<0, 0>>
FracInf == <<1, 0>>

\* a / b on floats: x/0 is inf, 0/0 and anything with NaN is NaN.
Div(a, b) ==
    IF a = NaN \/ b = NaN THEN FracNaN
    ELSE IF b = 0 THEN (IF a = 0 THEN FracNaN ELSE FracInf)
    ELSE LET g == Gcd(a, b) IN <<a \div g, b \div g>>

FracAdd(x, y) ==
    IF x = FracNaN \/ y = FracNaN THEN FracNaN
    ELSE IF x[2] = 0 \/ y[2] = 0 THEN FracInf
    ELSE Div(x[1] * y[2] + y[1] * x[2], x[2] * y[2])

FracDivInt(x, n) ==
    IF x = FracNaN \/ n = 0 THEN FracNaN
    ELSE IF x[2] = 0 THEN FracInf
    ELSE Div(x[1], x[2] * n)

\* strict order on finite fractions
FracLess(x, y) == x[1] * y[2] < y[1] * x[2]

\* a + b on floats: NaN propagates.
Add(a, b) == IF a = NaN \/ b = NaN THEN NaN ELSE a + b

\* np.log1p(x) = ln(1 + x), kept as the argument 1 + x in 1/Denom units.
log1p(x) == [ln_of |-> x + Denom]

\* int(x) for x >= 0: truncation to a whole number.
int(x) == (x \div Denom) * Denom

(* ----------------------------- the CSV file ---------------------------- *)
\* Candidate source rows.  Numeric cells hold a number, an empty cell or
\* text that is not a number.
RowPool ==
    { [ad_id |-> "A", city |-> "Cairo", type |-> "Villa", rent |-> "Sale",
       furnished |-> "Yes", price |-> Whole(100000), area |-> Whole(100),
       bedrooms |-> Whole(3), bathrooms |-> Whole(2), level |-> Whole(1)],
      [ad_id |-> "B", city |-> "Giza", type |-> "Apartment", rent |-> "Rent",
       furnished |-> "No", price |-> Whole(100000), area |-> Whole(105),
       bedrooms |-> Whole(2), bathrooms |-> Whole(1), level |-> EmptyCell],
      [ad_id |-> "C", city |-> "Cairo", type |-> "Apartment", rent |-> "Sale",
       furnished |-> "Yes", price |-> Whole(105000), area |-> Whole(110),
       bedrooms |-> EmptyCell, bathrooms |-> JunkCell, level |-> Whole(3)],
      [ad_id |-> "D", city |-> "Giza", type |-> "Villa", rent |-> "Sale",
       furnished |-> "No", price |-> JunkCell, area |-> Whole(100),
       bedrooms |-> Whole(2), bathrooms |-> Whole(2), level |-> Whole(2)],
      [ad_id |-> "E", city |-> "Cairo", type |-> "Villa", rent |-> "Rent",
       furnished |-> "Yes", price |-> Whole(105000), area |-> EmptyCell,
       bedrooms |-> Whole(3), bathrooms |-> Whole(1), level |-> JunkCell],
      [ad_id |-> "F", city |-> "Giza", type |-> "Studio", rent |-> "Sale",
       furnished |-> "Yes", price |-> Whole(107500) + 1, area |-> Whole(107) + 1,
       bedrooms |-> Whole(3), bathrooms |-> Whole(2), level |-> Whole(2)],
      [ad_id |-> "G", city |-> "Cairo", type |-> "Apartment", rent |-> "Rent",
       furnished |-> "No", price |-> Whole(105000), area |-> Whole(95),
       bedrooms |-> Whole(2), bathrooms |-> Whole(2), level |-> Whole(4)] }

\* CSV files: sequences of at most MaxRows distinct rows.
CsvFiles ==
    UNION { { s \in [1..n -> RowPool] : \A i, j \in 1..n : i # j => s[i] # s[j] }
            : n \in 0..MaxRows }

(* ------------------------------ load_data ------------------------------ *)
\* pd.to_numeric(errors="coerce") on one cell
to_numeric(cell) == IF cell >= 0 THEN cell ELSE NaN

coerce(row) ==
    [row EXCEPT !.price = to_numeric(@), !.area = to_numeric(@),
                !.bedrooms = to_numeric(@), !.bathrooms = to_numeric(@),
                !.level = to_numeric(@)]

isna(x) == x = NaN

\* faulty variant of dropna: subset=["price"] only
dropnaPriceOnly(rows) == SelectSeq(rows, LAMBDA r : ~isna(r.price))

\* df.dropna(subset=["price", "area"])
dropna(rows) == SelectSeq(rows, LAMBDA r : ~isna(r.price) /\ ~isna(r.area))

features(r) ==
    [ad_id |-> r.ad_id, city |-> r.city, type |-> r.type, rent |-> r.rent,
     furnished |-> r.furnished, price |-> r.price, area |-> r.area,
     bedrooms |-> r.bedrooms, bathrooms |-> r.bathrooms, level |-> r.level,
     rooms |-> Add(r.bedrooms, r.bathrooms),
     price_per_m2 |-> Div(r.price, r.area),
     log_price |-> log1p(r.price)]

load_data(file) ==
    LET coerced == [i \in 1..Len(file) |-> coerce(file[i])]
        kept == dropna(coerced)
    IN [i \in 1..Len(kept) |-> features(kept[i])]

(* --------------------------- series helpers ---------------------------- *)
Col(frame, name) == [i \in 1..Len(frame) |-> frame[i][name]]

Values(series) == { series[i] : i \in 1..Len(series) }

\* Series.unique(): distinct values in order of first appearance
unique(series) ==
    LET first == SelectSeq([i \in 1..Len(series) |-> i],
                           LAMBDA i : \A j \in 1..(i - 1) : series[j] # series[i])
    IN [k \in 1..Len(first) |-> series[first[k]]]

\* Series.min() / Series.max(): missing values are skipped; NaN if none is left
min(series) ==
    LET vals == Values(series) \ {NaN}
    IN IF vals = {} THEN NaN ELSE CHOOSE m \in vals : \A v \in vals : m <= v

max(series) ==
    LET vals == Values(series) \ {NaN}
    IN IF vals = {} THEN NaN ELSE CHOOSE m \in vals : \A v \in vals : m >= v

\* float comparisons: any comparison with NaN is False
Ge(a, b) == a # NaN /\ b # NaN /\ a >= b
Le(a, b) == a # NaN /\ b # NaN /\ a <= b
Lt(a, b) == a # NaN /\ b # NaN /\ a < b

Perms(n) == { p \in [1..n -> 1..n] : \A i, j \in 1..n : i # j => p[i] # p[j] }

(* --------------------------- sidebar widgets --------------------------- *)
\* lines 45-58: options (and default) of the four multiselects
Options(frame, name) == Values(Col(frame, name))

\* values a numeric slider can take: min + k * step, and max itself
SliderPositions(lo, hi, step) ==
    { lo + k * step : k \in 0..((hi - lo) \div step) } \cup {hi}

\* a range slider returns a pair (low, high) of positions, low <= high
SliderRanges(lo, hi, step) ==
    { r \in SliderPositions(lo, hi, step) \X SliderPositions(lo, hi, step) : r[1] <= r[2] }

\* lines 61-62 and 64-65: slider limits are int(min), int(max)
price_min(frame) == int(min(Col(frame, "price")))
price_max(frame) == int(max(Col(frame, "price")))
area_min(frame) == int(min(Col(frame, "area")))
area_max(frame) == int(max(Col(frame, "area")))

PriceRanges(frame) == SliderRanges(price_min(frame), price_max(frame), Whole(PriceStep))
AreaRanges(frame) == SliderRanges(area_min(frame), area_max(frame), Whole(AreaStep))

\* lines 68-71: a select_slider over the distinct values of the column; a
\* missing value is one of the options when the column has one.
SelectRanges(frame, name) ==
    { r \in Options(frame, name) \X Options(frame, name) :
        r[1] = NaN \/ r[2] = NaN \/ r[1] <= r[2] }

\* The script stops with an exception before any output when int() is
\* applied to the NaN minimum of an empty column (line 61), or when the
\* default of a select_slider is NaN, which equals none of its options
\* (lines 68-71).
ScriptRaises(frame) ==
    \/ Len(frame) = 0
    \/ min(Col(frame, "bedrooms")) = NaN
    \/ min(Col(frame, "bathrooms")) = NaN

\* the widget values of a first run: every default
DefaultSpec(frame) ==
    [cities |-> Options(frame, "city"),
     prop_types |-> Options(frame, "type"),
     rent_opts |-> Options(frame, "rent"),
     furn_opts |-> Options(frame, "furnished"),
     sel_price |-> <<price_min(frame), price_max(frame)>>,
     sel_area |-> <<area_min(frame), area_max(frame)>>,
     sel_bed |-> <<min(Col(frame, "bedrooms")), max(Col(frame, "bedrooms"))>>,
     sel_bath |-> <<min(Col(frame, "bathrooms")), max(Col(frame, "bathrooms"))>>]

(* ----------------------------- the filter ------------------------------ *)
\* faulty variant of isin: an empty list of values matches every row
isinVacuous(series, values) ==
    [i \in 1..Len(series) |-> values = {} \/ series[i] \in values]

\* Series.isin(values)
isin(series, values) == [i \in 1..Len(series) |-> series[i] \in values]

\* faulty variant of between: the right end is excluded
betweenExclusive(series, left, right) ==
    [i \in 1..Len(series) |-> Ge(series[i], left) /\ Lt(series[i], right)]

\* Series.between(left, right), inclusive="both"
between(series, left, right) ==
    [i \in 1..Len(series) |-> Ge(series[i], left) /\ Le(series[i], right)]

\* m1 & m2
MaskAnd(m1, m2) == [i \in 1..Len(m1) |-> m1[i] /\ m2[i]]

\* faulty variant of boolean indexing: the mask is applied one row off
BooleanIndexShifted(frame, mask) ==
    LET idx == SelectSeq([i \in 1..Len(frame) |-> i],
                         LAMBDA i : i < Len(frame) /\ mask[i + 1])
    IN [k \in 1..Len(idx) |-> frame[idx[k]]]

\* frame[mask]: a new frame with the rows whose mask entry is True, in order
BooleanIndex(frame, mask) ==
    LET idx == SelectSeq([i \in 1..Len(frame) |-> i], LAMBDA i : mask[i])
    IN [k \in 1..Len(idx) |-> frame[idx[k]]]

\* lines 74-83
FilterMask(frame, S) ==
    MaskAnd(MaskAnd(MaskAnd(MaskAnd(MaskAnd(MaskAnd(MaskAnd(
        isin(Col(frame, "city"), S.cities),
        isin(Col(frame, "type"), S.prop_types)),
        isin(Col(frame, "rent"), S.rent_opts)),
        isin(Col(frame, "furnished"), S.furn_opts)),
        between(Col(frame, "price"), S.sel_price[1], S.sel_price[2])),
        between(Col(frame, "area"), S.sel_area[1], S.sel_area[2])),
        between(Col(frame, "bedrooms"), S.sel_bed[1], S.sel_bed[2])),
        between(Col(frame, "bathrooms"), S.sel_bath[1], S.sel_bath[2]))

Filter(frame, S) == BooleanIndex(frame, FilterMask(frame, S))

(* ----------------------------- aggregates ------------------------------ *)
\* a stored number as an exact fraction of whole units
ToFrac(x) == Div(x, Denom)

RECURSIVE FracSum(_)
FracSum(fracs) ==
    IF Len(fracs) = 0 THEN <<0, 1>>
    ELSE FracAdd(fracs[1], FracSum(Tail(fracs)))

\* Series.mean(): sum / count, which is 0/0 = NaN for an empty series
mean(fracs) == FracDivInt(FracSum(fracs), Len(fracs))

\* the values of fracs in ascending order
SortedFracs(fracs) ==
    LET p == CHOOSE q \in Perms(Len(fracs)) :
                 \A i, j \in 1..Len(fracs) :
                     i < j => ~FracLess(fracs[q[j]], fracs[q[i]])
    IN [k \in 1..Len(fracs) |-> fracs[p[k]]]

\* Series.median(): NaN for an empty series, else the middle value or the
\* mean of the two middle values
median(fracs) ==
    LET n == Len(fracs)
        s == SortedFracs(fracs)
    IN IF n = 0 THEN FracNaN
       ELSE IF n % 2 = 1 THEN s[(n + 1) \div 2]
       ELSE FracDivInt(FracAdd(s[n \div 2], s[n \div 2 + 1]), 2)

\* f"{x:,.0f}": NaN prints as "nan", inf as "inf", a number rounded to the
\* nearest integer (ties to even)
Format0f(x) ==
    IF x = FracNaN THEN [text |-> "nan", val |-> 0]
    ELSE IF x[2] = 0 THEN [text |-> "inf", val |-> 0]
    ELSE LET q == x[1] \div x[2]
             r == x[1] % x[2]
         IN [text |-> "number",
             val |-> IF 2 * r < x[2] THEN q
                     ELSE IF 2 * r > x[2] THEN q + 1
                     ELSE IF q % 2 = 0 THEN q ELSE q + 1]

FracCol(frame, name) == [i \in 1..Len(frame) |-> ToFrac(frame[i][name])]

\* lines 97-101
KPIs(view) ==
    [total |-> Len(view),
     avg_price |-> Format0f(mean(FracCol(view, "price"))),
     median_area |-> Format0f(median(FracCol(view, "area"))),
     avg_price_per_m2 |-> Format0f(mean(Col(view, "price_per_m2")))]

\* Python's order on the property-type strings of the file
TypeRank(t) == CASE t = "Apartment" -> 1 [] t = "Studio" -> 2 [] t = "Villa" -> 3

\* groupby("type")["price"].mean(): one entry per type, in ascending key order
groupby_mean(view) ==
    LET types == Options(view, "type")
        keys == CHOOSE s \in [1..Cardinality(types) -> types] :
                    \A i, j \in 1..Cardinality(types) :
                        i < j => TypeRank(s[i]) < TypeRank(s[j])
        rows(t) == SelectSeq(view, LAMBDA r : r.type = t)
    IN [k \in 1..Cardinality(types) |->
           [type |-> keys[k], price |-> mean(FracCol(rows(keys[k]), "price"))]]

\* the orders in which a sort may leave rows with the given keys.  The
\* default kind="quicksort" is not stable: every arrangement in descending
\* order of the key is a possible result, whatever the order of equal keys.
DescendingOrders(keys) ==
    { q \in Perms(Len(keys)) :
        \A i, j \in 1..Len(keys) : i < j => ~FracLess(keys[q[i]], keys[q[j]]) }

\* the same for ascending=True
AscendingOrders(keys) ==
    { q \in Perms(Len(keys)) :
        \A i, j \in 1..Len(keys) : i < j => ~FracLess(keys[q[j]], keys[q[i]]) }

Reorder(frame, p) == [k \in 1..Len(frame) |-> frame[p[k]]]

\* faulty variant of type_price: sorted in ascending order
TypePricesAscending(view) ==
    LET g == groupby_mean(view)
    IN { Reorder(g, p) : p \in AscendingOrders(Col(g, "price")) }

\* lines 115-117: the possible values of type_price
TypePrices(view) ==
    LET g == groupby_mean(view)
    IN { Reorder(g, p) : p \in DescendingOrders(Col(g, "price")) }

\* DataFrame.head(n)
head(frame, n) == SubSeq(frame, 1, IF Len(frame) < n THEN Len(frame) ELSE n)

\* line 137: the possible values of the top-20 table
Top20s(view) ==
    { head(Reorder(view, p), TopN) : p \in DescendingOrders(FracCol(view, "price")) }

(* ------------------------------- export -------------------------------- *)
\* to_csv writes a missing value as an empty field
to_csv_cell(x) == IF x = NaN THEN EmptyCell ELSE x

\* line 90: header row, then one row per listing with the derived columns
to_csv(view) ==
    [header |-> <<"ad_id", "city", "type", "rent", "furnished", "price", "area",
                  "bedrooms", "bathrooms", "level", "rooms", "price_per_m2",
                  "log_price">>,
     rows |-> [i \in 1..Len(view) |->
                 [view[i] EXCEPT !.bedrooms = to_csv_cell(@),
                                 !.bathrooms = to_csv_cell(@),
                                 !.level = to_csv_cell(@),
                                 !.rooms = to_csv_cell(@)]]]

(* ------------------------------ comparison ----------------------------- *)
\* faulty variant of comp_df: one row per chosen id, in the order of the ids
CompDfIdsOrder(view, ids) ==
    LET hit == SelectSeq(ids, LAMBDA a : a \in Options(view, "ad_id"))
    IN [k \in 1..Len(hit) |-> CHOOSE r \in Values(view) : r.ad_id = hit[k]]

\* line 145: df_filtered[df_filtered["ad_id"].isin(compare_ids)]
CompDf(view, ids) == BooleanIndex(view, isin(Col(view, "ad_id"), Values(ids)))

\* faulty variant of the test of line 142: a single id is let through
InsufficientSelectionLoose(ids) == Len(ids) < MinCompare - 1

\* line 142
InsufficientSelection(ids) == Len(ids) < MinCompare

\* lines 150-158: one trace per row of comp_df over the radar columns, named
\* by the first 12 characters of its ad_id (the ids of the file are shorter)
Radar(comp) ==
    [i \in 1..Len(comp) |->
        [name |-> comp[i].ad_id,
         r |-> <<comp[i].price, comp[i].area, comp[i].bedrooms,
                 comp[i].bathrooms, comp[i].rooms>>]]

\* lines 140-160
CompareTab(view, ids) ==
    IF InsufficientSelection(ids)
    THEN [state |-> "info", table |-> <<>>, radar |-> <<>>]
    ELSE [state |-> "comparison",
          table |-> CompDf(view, ids),
          radar |-> IF Len(ids) <= RadarMax THEN Radar(CompDf(view, ids)) ELSE <<>>]

(* ---------------------------- one script run -------------------------- *)
CurrentSpec ==
    [cities |-> cities, prop_types |-> prop_types, rent_opts |-> rent_opts,
     furn_opts |-> furn_opts, sel_price |-> sel_price, sel_area |-> sel_area,
     sel_bed |-> sel_bed, sel_bath |-> sel_bath]

NoKpi ==
    [total |-> 0, avg_price |-> [text |-> "", val |-> 0],
     median_area |-> [text |-> "", val |-> 0],
     avg_price_per_m2 |-> [text |-> "", val |-> 0]]

NoCompare == [state |-> "", table |-> <<>>, radar |-> <<>>]

NoCsv == [header |-> <<>>, rows |-> <<>>]

\* faulty variant of the filter: df itself is replaced by the filtered rows
ApplyFiltersInPlace(frame, S) ==
    /\ df' = Filter(frame, S)
    /\ df_filtered' = df'

\* lines 74-83: boolean indexing builds a new frame and leaves df alone
ApplyFilters(frame, S) ==
    /\ df_filtered' = Filter(frame, S)
    /\ df' = frame

\* line 87: the multiselect keeps its selection while its options are the
\* same as in the previous run and starts empty again when they differ
CompareSelection(ids, view) ==
    IF unique(Col(view, "ad_id")) = unique(Col(df_filtered, "ad_id"))
    THEN ids ELSE <<>>

\* lines 41-160 with the widget values S and the comparison selection ids
Script(frame, S, ids) ==
    /\ status' = "ok"
    /\ cities' = S.cities
    /\ prop_types' = S.prop_types
    /\ rent_opts' = S.rent_opts
    /\ furn_opts' = S.furn_opts
    /\ sel_price' = S.sel_price
    /\ sel_area' = S.sel_area
    /\ sel_bed' = S.sel_bed
    /\ sel_bath' = S.sel_bath
    /\ ApplyFilters(frame, S)
    /\ compare_ids' = CompareSelection(ids, df_filtered')
    /\ download' = to_csv(df_filtered')
    /\ kpi' = KPIs(df_filtered')
    /\ type_price' \in TypePrices(df_filtered')
    /\ top20' \in Top20s(df_filtered')
    /\ compare' = CompareTab(df_filtered', compare_ids')

\* the run ends at the exception: nothing after the sidebar is produced
Crash(frame) ==
    /\ status' = "error"
    /\ df' = frame
    /\ UNCHANGED <<cities, prop_types, rent_opts, furn_opts, sel_price, sel_area,
                   sel_bed, sel_bath, compare_ids, df_filtered, download,
                   kpi, type_price, top20, compare>>

Init ==
    /\ csv \in CsvFiles
    /\ df = <<>>
    /\ status = "start"
    /\ interactions = 0
    /\ cities = {} /\ prop_types = {} /\ rent_opts = {} /\ furn_opts = {}
    /\ sel_price = <<NaN, NaN>> /\ sel_area = <<NaN, NaN>>
    /\ sel_bed = <<NaN, NaN>> /\ sel_bath = <<NaN, NaN>>
    /\ compare_ids = <<>>
    /\ df_filtered = <<>>
    /\ download = NoCsv
    /\ kpi = NoKpi
    /\ type_price = <<>>
    /\ top20 = <<>>
    /\ compare = NoCompare

\* first run: lines 22-39 load the table, every widget is at its default
Load ==
    /\ status = "start"
    /\ UNCHANGED <<csv, interactions>>
    /\ LET frame == load_data(csv)
       IN IF ScriptRaises(frame) THEN Crash(frame)
          ELSE Script(frame, DefaultSpec(frame), <<>>)

\* a widget interaction: Streamlit runs the script again; load_data returns
\* the cached table
Rerun(S, ids) ==
    /\ status = "ok"
    /\ interactions < MaxInteractions
    /\ interactions' = interactions + 1
    /\ csv' = csv
    /\ Script(df, S, ids)

\* a click on a multiselect adds or removes one option
Toggle(selection, option) ==
    IF option \in selection THEN selection \ {option} ELSE selection \cup {option}

\* a drag on a range slider moves one of its two handles
OneHandleMoved(old, new) == new # old /\ (new[1] = old[1] \/ new[2] = old[2])

SelectCities ==
    \E c \in Options(df, "city") :
        Rerun([CurrentSpec EXCEPT !.cities = Toggle(cities, c)], compare_ids)

SelectPropTypes ==
    \E t \in Options(df, "type") :
        Rerun([CurrentSpec EXCEPT !.prop_types = Toggle(prop_types, t)], compare_ids)

SelectRentOpts ==
    \E r \in Options(df, "rent") :
        Rerun([CurrentSpec EXCEPT !.rent_opts = Toggle(rent_opts, r)], compare_ids)

SelectFurnOpts ==
    \E f \in Options(df, "furnished") :
        Rerun([CurrentSpec EXCEPT !.furn_opts = Toggle(furn_opts, f)], compare_ids)

SlidePrice ==
    \E r \in PriceRanges(df) :
        /\ OneHandleMoved(sel_price, r)
        /\ Rerun([CurrentSpec EXCEPT !.sel_price = r], compare_ids)

SlideArea ==
    \E r \in AreaRanges(df) :
        /\ OneHandleMoved(sel_area, r)
        /\ Rerun([CurrentSpec EXCEPT !.sel_area = r], compare_ids)

SlideBedrooms ==
    \E r \in SelectRanges(df, "bedrooms") :
        /\ OneHandleMoved(sel_bed, r)
        /\ Rerun([CurrentSpec EXCEPT !.sel_bed = r], compare_ids)

SlideBathrooms ==
    \E r \in SelectRanges(df, "bathrooms") :
        /\ OneHandleMoved(sel_bath, r)
        /\ Rerun([CurrentSpec EXCEPT !.sel_bath = r], compare_ids)

\* line 87: the user adds one of the offered ids to the selection
PickCompareId ==
    \E a \in Options(df_filtered, "ad_id") \ Values(compare_ids) :
        Rerun(CurrentSpec, Append(compare_ids, a))

UnpickCompareId ==
    \E a \in Values(compare_ids) :
        Rerun(CurrentSpec, SelectSeq(compare_ids, LAMBDA x : x # a))

\* line 91: the browser saves the bytes prepared by the run on screen (the
\* download variable) and the script runs again with the same widget values
ClickDownload == Rerun(CurrentSpec, compare_ids)

Next ==
    \/ Load
    \/ SelectCities
    \/ SelectPropTypes
    \/ SelectRentOpts
    \/ SelectFurnOpts
    \/ SlidePrice
    \/ SlideArea
    \/ SlideBedrooms
    \/ SlideBathrooms
    \/ PickCompareId
    \/ UnpickCompareId
    \/ ClickDownload

Spec == Init /\ [][Next]_vars

(* ------------------------------- claims -------------------------------- *)
\* a value lies in an inclusive range: both ends belong to it, and a
\* missing value or a missing end lies in none
InRange(v, rng) ==
    /\ v # NaN /\ rng[1] # NaN /\ rng[2] # NaN
    /\ rng[1] <= v /\ v <= rng[2]

\* a listing satisfies every clause of a FilterSpec
Satisfies(r, S) ==
    /\ r.city \in S.cities
    /\ r.type \in S.prop_types
    /\ r.rent \in S.rent_opts
    /\ r.furnished \in S.furn_opts
    /\ InRange(r.price, S.sel_price)
    /\ InRange(r.area, S.sel_area)
    /\ InRange(r.bedrooms, S.sel_bed)
    /\ InRange(r.bathrooms, S.sel_bath)

\* C1: the FilteredView holds exactly the listings of the Table that satisfy
\* every clause of the FilterSpec, both range ends inclusive: each row of
\* df_filtered is a row of df that satisfies the spec (soundness) and each
\* row of df that satisfies the spec is in df_filtered (completeness).
C1_FilterSoundAndComplete ==
    status = "ok" =>
        /\ \A i \in 1..Len(df_filtered) :
              df_filtered[i] \in Values(df) /\ Satisfies(df_filtered[i], CurrentSpec)
        /\ \A i \in 1..Len(df) :
              Satisfies(df[i], CurrentSpec) => df[i] \in Values(df_filtered)

\* C1 witness: a narrowed price range keeps a listing whose price is both
\* ends of the range and excludes another listing.
C1_Witness ==
    /\ status = "ok"
    /\ sel_price # DefaultSpec(df).sel_price
    /\ Len(df_filtered) < Len(df)
    /\ \E i \in 1..Len(df_filtered) :
          df_filtered[i].price = sel_price[1] /\ df_filtered[i].price = sel_price[2]

\* C2: once loaded, the Table stays what the loader returned through every
\* interaction, and the FilteredView is the filter of (Table, FilterSpec).
C2_TableNeverMutated ==
    /\ status # "start" => df = load_data(csv)
    /\ status = "ok" => df_filtered = Filter(load_data(csv), CurrentSpec)

\* C2 witness: after two interactions the widgets are off their defaults,
\* a listing is filtered out, and the export and the top-20 table are built.
C2_Witness ==
    /\ status = "ok"
    /\ interactions >= 2
    /\ CurrentSpec # DefaultSpec(df)
    /\ Len(download.rows) < Len(df)
    /\ Len(download.rows) > 0
    /\ top20 # <<>>

NumericCell(cell) == cell # EmptyCell /\ cell # JunkCell

\* C3: the loaded Table holds, in file order, exactly the source rows whose
\* price and area cells are numbers; every row has price and area present,
\* rooms = bedrooms + bathrooms, price_per_m2 = price / area and
\* log_price = ln(1 + price).
C3_LoaderDropsAndDerives ==
    status # "start" =>
        /\ Col(df, "ad_id") =
              Col(SelectSeq(csv, LAMBDA r : NumericCell(r.price) /\ NumericCell(r.area)),
                  "ad_id")
        /\ \A i \in 1..Len(df) :
              /\ df[i].price # NaN /\ df[i].area # NaN
              /\ df[i].rooms = IF df[i].bedrooms = NaN \/ df[i].bathrooms = NaN
                               THEN NaN ELSE df[i].bedrooms + df[i].bathrooms
              /\ df[i].price_per_m2[2] # 0
              /\ df[i].price_per_m2[1] * df[i].area = df[i].price * df[i].price_per_m2[2]
              /\ df[i].log_price.ln_of = df[i].price + Whole(1)

\* C3 witness: a file of which one row was dropped and another survived.
C3_Witness ==
    /\ status # "start"
    /\ Len(df) >= 1
    /\ Len(df) < Len(csv)
    /\ \E i \in 1..Len(csv) : ~NumericCell(csv[i].area)

\* C4 as stated: the comparison rows come in the order the ids were given.
C4_RowsInIdOrder ==
    compare.state = "comparison" =>
        Col(compare.table, "ad_id") =
            SelectSeq(compare_ids, LAMBDA a : a \in Options(df_filtered, "ad_id"))

\* C4 amended: the comparison rows are the listings of the view whose id is
\* among the chosen ids, in the order they have in the view; an id that is
\* not in the view contributes no row.
C4_RowsInViewOrder ==
    compare.state = "comparison" =>
        compare.table = SelectSeq(df_filtered, LAMBDA r : r.ad_id \in Values(compare_ids))

\* C4 witness: two ids chosen in the opposite of their order in the view.
C4_Witness ==
    /\ compare.state = "comparison"
    /\ Len(compare.table) = 2
    /\ compare_ids = <<compare.table[2].ad_id, compare.table[1].ad_id>>

NoData == "no data"

\* C6 as stated: over an empty view the three metrics are the 'no data'
\* sentinel, not NaN.
C6_EmptyViewGivesNoData ==
    (status = "ok" /\ Len(df_filtered) = 0) =>
        /\ kpi.avg_price.text = NoData
        /\ kpi.median_area.text = NoData
        /\ kpi.avg_price_per_m2.text = NoData

\* C7: an empty allowed-value set for any one categorical dimension gives an
\* empty FilteredView.
C7_EmptyCategoryEmptiesView ==
    (status = "ok" /\ (cities = {} \/ prop_types = {} \/ rent_opts = {} \/ furn_opts = {}))
        => df_filtered = <<>>

\* C7 witness: only the property-type set is empty, over a non-empty table.
C7_Witness ==
    /\ status = "ok"
    /\ prop_types = {}
    /\ cities # {} /\ rent_opts # {} /\ furn_opts # {}
    /\ Len(df) > 0
    /\ df_filtered = <<>>

\* C8: filtering the FilteredView again with the same FilterSpec gives the
\* FilteredView, same listings in the same order.
C8_FilterIdempotent ==
    status = "ok" => Filter(df_filtered, CurrentSpec) = df_filtered

\* C8 witness: a view that is neither empty nor the whole table.
C8_Witness ==
    /\ status = "ok"
    /\ Len(df_filtered) > 0
    /\ Len(df_filtered) < Len(df)

\* position of the first listing of a type in the view
FirstSeen(t) == CHOOSE i \in 1..Len(df_filtered) :
                    df_filtered[i].type = t /\ \A j \in 1..(i - 1) : df_filtered[j].type # t

C10_DefaultsShowWholeTable ==
    (status = "ok" /\ CurrentSpec = DefaultSpec(df)) => df_filtered = df

====
